---- MODULE Spec2Model ----
(***************************************************************************)
(* Reactive computation core of the sales & operations dashboard            *)
(* (src/main.py): the three Dash callbacks update_kpi_cards,                *)
(* update_tab_content and update_inventory_section, the global tables they  *)
(* read, the process-wide numpy random source they share, and the           *)
(* Input/Output graph that decides which callback an event triggers.        *)
(*                                                                         *)
(* Tables are sequences of rows (records).  Dates are day numbers; an       *)
(* absent date (None) is NoDate.  Quotients are kept exact as num/den.      *)
(* update_clock (lines 168-173) writes only the live-clock text, which      *)
(* nothing else reads, and is left out.  An Output holds the outcome of its *)
(* callback's latest run: the value returned, or the fault raised (Dash     *)
(* then leaves the component as it was and reports the error).              *)
(***************************************************************************)
EXTENDS Integers, Sequences, FiniteSets, TLC

(***************************************************************************)
(* State.                                                                   *)
(***************************************************************************)
VARIABLES
    sales,              \* the global sales table (lines 11-19)
    inventory,          \* the global inventory table (lines 13, 20)
    rng,                \* the state of numpy's global random source
    start_date, end_date, region, category,     \* the component properties
    active_tab, n_clicks, n_intervals,          \* of the browser session
    kpi_cards, tab_content, inventory_section,  \* each Output: the outcome of
                                                \* its callback's latest run
    requests,           \* requests in progress on the threaded server
    sales0, inventory0, \* history: the tables as loaded
    fired,              \* history: the callbacks the last event ran
    ref, kpiSinceRef    \* history: one earlier inventory outcome

tables == <<sales, inventory, sales0, inventory0>>
props == <<start_date, end_date, region, category, active_tab, n_clicks, n_intervals>>
outputs == <<kpi_cards, tab_content, inventory_section>>
observed == <<ref, kpiSinceRef>>
vars == <<tables, rng, props, outputs, requests, fired, observed>>

(***************************************************************************)
(* Bounds of the model.                                                     *)
(***************************************************************************)
MaxDate == 2
MaxRows == 2
MaxStock == 3
MaxTicks == 1
MaxClicks == 1
NumThreads == 2

\* None, as the DatePickerRange delivers a cleared date (falsy at line 189).
NoDate == 0

Dates == 1..MaxDate
DateInputs == {NoDate} \cup Dates

\* The kinds of order a sales row can be (the columns joined in at line 19).
OrderKinds ==
    { [Region |-> "East", Product_Name |-> "Widget", Category |-> "A",
       Sales_Amount |-> 100, Units_Sold |-> 2],
      [Region |-> "West", Product_Name |-> "Gadget", Category |-> "B",
       Sales_Amount |-> 50, Units_Sold |-> 1],
      [Region |-> "West", Product_Name |-> "Widget", Category |-> "A",
       Sales_Amount |-> 100, Units_Sold |-> 3] }

SalesRows ==
    { [Date |-> d, Region |-> k.Region, Product_Name |-> k.Product_Name,
       Category |-> k.Category, Sales_Amount |-> k.Sales_Amount,
       Units_Sold |-> k.Units_Sold] : d \in Dates, k \in OrderKinds }

SeqsUpTo(S, n) == UNION { [1..m -> S] : m \in 0..n }

SalesTables == SeqsUpTo(SalesRows, MaxRows)

ReorderLevels == {1, 3}

InventoryRows ==
    { [Stock_Level |-> s, Reorder_Level |-> r] : s \in 0..MaxStock, r \in ReorderLevels }

InventoryTables == SeqsUpTo(InventoryRows, MaxRows)

\* Values the region and category dropdowns can deliver: 'all', a value some
\* row has, a value no row has (as a cleared dropdown's None is).
RegionInputs == {"all", "East", "North"}
CategoryInputs == {"all", "A"}
TabValues == {"sales-tab", "trends-tab", "product-tab"}

(***************************************************************************)
(* numpy's process-wide random source, abstracted to a small deterministic  *)
(* generator: a state, a seeding map, a step, and draws that are functions  *)
(* of the state.                                                            *)
(***************************************************************************)
RngStates == 0..7

RngSeed(s) == (3 * s + 1) % 8

RngNext(st) == (5 * st + 3) % 8

RECURSIVE RngAdvance(_, _)
RngAdvance(st, k) == IF k = 0 THEN st ELSE RngAdvance(RngNext(st), k - 1)

\* np.random.randint(low, high, size): size integers in low..high-1, and the
\* state the source is left in.
RandInt(low, high, size, st) ==
    [vals |-> [i \in 1..size |-> low + (RngAdvance(st, i) % (high - low))],
     rng |-> RngAdvance(st, size)]

\* np.random.uniform(low, high): one draw, as an integer of the range.
RandUniform(low, high, st) ==
    [val |-> low + ((RngNext(st) * (high - low)) \div 8),
     rng |-> RngNext(st)]

(***************************************************************************)
(* Arithmetic helpers.                                                      *)
(***************************************************************************)
Rat(n) == [err |-> FALSE, num |-> n, den |-> 1]

\* Python's / : raises ZeroDivisionError on a zero divisor.
TrueDiv(a, b) ==
    IF b = 0 THEN [err |-> TRUE, num |-> 0, den |-> 1]
    ELSE [err |-> FALSE, num |-> a, den |-> b]

RECURSIVE SumCol(_, _)
SumCol(tbl, col) ==
    IF Len(tbl) = 0 THEN 0 ELSE Head(tbl)[col] + SumCol(Tail(tbl), col)

Truthy(d) == d # NoDate

(***************************************************************************)
(* The sales filter (update_kpi_cards lines 187-199, repeated verbatim in   *)
(* update_tab_content lines 274-286).                                       *)
(***************************************************************************)
DateStep(fs, sd, ed) ==
    IF Truthy(sd) /\ Truthy(ed)
    THEN SelectSeq(fs, LAMBDA r : r.Date >= sd /\ r.Date <= ed)
    ELSE fs

RegionStep(fs, rg) ==
    IF rg # "all" THEN SelectSeq(fs, LAMBDA r : r.Region = rg) ELSE fs

\* The slip of filtering the global table instead of the rows kept so far.
CategoryStepFromGlobal(fs, cat) ==
    IF cat # "all" THEN SelectSeq(sales, LAMBDA r : r.Category = cat) ELSE fs

CategoryStep(fs, cat) ==
    IF cat # "all" THEN SelectSeq(fs, LAMBDA r : r.Category = cat) ELSE fs

FilterSales(tbl, a) ==
    CategoryStep(RegionStep(DateStep(tbl, a.start_date, a.end_date), a.region),
                 a.category)

(***************************************************************************)
(* update_kpi_cards: the metrics (lines 202-207, 231).                      *)
(***************************************************************************)
\* Line 204 without its `if len(filtered_sales) > 0` guard.
AvgOrderValueUnguarded(total_sales, n) == TrueDiv(total_sales, n)

AvgOrderValue(total_sales, n) == IF n > 0 THEN TrueDiv(total_sales, n) ELSE Rat(0)

AvgUnits(total_units, n) ==
    IF n > 0 THEN [text |-> "Avg", value |-> TrueDiv(total_units, n)]
    ELSE [text |-> "No data", value |-> Rat(0)]

\* The callback's return value and the state it leaves the random source in.
KpiCards(tbl, a, st) ==
    LET filtered_sales == FilterSales(tbl, a)
        total_sales == SumCol(filtered_sales, "Sales_Amount")
        total_units == SumCol(filtered_sales, "Units_Sold")
        avg_order_value == AvgOrderValue(total_sales, Len(filtered_sales))
        growth == RandUniform(-10, 15, st)
        avg_units == AvgUnits(total_units, Len(filtered_sales))
    IN  IF avg_order_value.err
        THEN [out |-> [status |-> "ZeroDivisionError", args |-> a], rng |-> st]
        ELSE IF avg_units.value.err
        THEN [out |-> [status |-> "ZeroDivisionError", args |-> a], rng |-> growth.rng]
        ELSE [out |-> [status |-> "ok",
                       args |-> a,
                       filtered_sales |-> filtered_sales,
                       total_sales |-> total_sales,
                       total_units |-> total_units,
                       avg_order_value |-> avg_order_value,
                       growth_rate |-> growth.val,
                       avg_units |-> avg_units,
                       orders |-> Len(filtered_sales)],
              rng |-> growth.rng]

(***************************************************************************)
(* update_tab_content: the chart aggregate of the selected tab.             *)
(***************************************************************************)
ColValues(tbl, col) == { tbl[i][col] : i \in 1..Len(tbl) }

\* groupby(col)[val].sum(): one pair per value of col present in tbl.
GroupSum(tbl, col, val) ==
    { <<k, SumCol(SelectSeq(tbl, LAMBDA r : r[col] = k), val)>> : k \in ColValues(tbl, col) }

ProductAgg(tbl) ==
    { [Product_Name |-> tbl[i].Product_Name, Category |-> tbl[i].Category,
       Sales_Amount |-> SumCol(SelectSeq(tbl, LAMBDA r :
                          r.Product_Name = tbl[i].Product_Name /\ r.Category = tbl[i].Category),
                          "Sales_Amount"),
       Units_Sold |-> SumCol(SelectSeq(tbl, LAMBDA r :
                          r.Product_Name = tbl[i].Product_Name /\ r.Category = tbl[i].Category),
                          "Units_Sold")] : i \in 1..Len(tbl) }

TabContent(tbl, a) ==
    LET filtered_sales == FilterSales(tbl, a)
    IN  [status |-> "ok",
         args |-> a,
         filtered_sales |-> filtered_sales,
         chart |-> CASE a.active_tab = "sales-tab" ->
                          [kind |-> "bar", data |-> GroupSum(filtered_sales, "Region", "Sales_Amount")]
                     [] a.active_tab = "trends-tab" ->
                          [kind |-> "line", data |-> GroupSum(filtered_sales, "Date", "Sales_Amount")]
                     [] a.active_tab = "product-tab" ->
                          [kind |-> "scatter", data |-> ProductAgg(filtered_sales)]
                     [] OTHER -> [kind |-> "None", data |-> {}]]

(***************************************************************************)
(* update_inventory_section (lines 368-378, 446).  The two data frames the  *)
(* callback touches are objects: the global `inventory` and whatever        *)
(* inventory.copy() returns; the column assignments of lines 374-375 write  *)
(* to the object dynamic_inventory names.                                   *)
(***************************************************************************)
\* A plain assignment in place of .copy(): the same object under a new name.
DfCopyAlias(name) == name

\* DataFrame.copy(): a fresh object holding the same rows.
DfCopy(name) == "copy_of_" \o name

\* A seed that leaves the refresh count out.
SeedFromIntervalsOnly(n, c) == RngSeed(n)

\* The argument of np.random.seed at line 373.
InventorySeed(n, c) == RngSeed(n + c)

AddToStock(tbl, deltas) ==
    [i \in 1..Len(tbl) |-> [tbl[i] EXCEPT !.Stock_Level = @ + deltas[i]]]

\* Line 375 left out.
ClipNone(tbl, lower) == tbl

\* Series.clip(lower=...)
ClipLower(tbl, lower) ==
    [i \in 1..Len(tbl) |-> [tbl[i] EXCEPT !.Stock_Level = IF @ < lower THEN lower ELSE @]]

Severity(row) == IF 2 * row.Stock_Level <= row.Reorder_Level THEN "CRITICAL" ELSE "LOW"

\* Lines 375-378 and the return: the outcome from the perturbed frame.
InventoryOut(a, perturbed) ==
    LET dynamic_inventory == ClipLower(perturbed, 0)
        low_stock == SelectSeq(dynamic_inventory, LAMBDA r : r.Stock_Level < r.Reorder_Level)
        stock_percentage ==
            TrueDiv(100 * (Len(dynamic_inventory) - Len(low_stock)), Len(dynamic_inventory))
    IN  IF stock_percentage.err
        THEN [status |-> "ZeroDivisionError", args |-> a]
        ELSE [status |-> "ok",
              args |-> a,
              dynamic_inventory |-> dynamic_inventory,
              low_stock |-> low_stock,
              alerts |-> [i \in 1..Len(low_stock) |-> Severity(low_stock[i])],
              stock_percentage |-> stock_percentage]

\* The callback's return value, the state it leaves the random source in, and
\* the rows the global inventory object holds afterwards.
InventorySection(inv, n, c, st) ==
    LET a == [n_intervals |-> n, refresh_clicks |-> c]
        dyn == DfCopy("inventory")
        objs0 == [o \in {"inventory", dyn} |-> inv]
        seeded == InventorySeed(n, c)
        draw == RandInt(-2, 3, Len(objs0[dyn]), seeded)
        objs1 == [objs0 EXCEPT ![dyn] = AddToStock(@, draw.vals)]
        out == InventoryOut(a, objs1[dyn])
        objs2 == [objs1 EXCEPT ![dyn] = ClipLower(@, 0)]
    IN  [out |-> out, rng |-> draw.rng, inventory |-> objs2["inventory"]]

(***************************************************************************)
(* Initial values.                                                          *)
(***************************************************************************)
NoOutput == [status |-> "none"]
Threads == 1..NumThreads
Idle == [pc |-> "idle"]
NoRef == [set |-> FALSE]

\* The end-to-end tables: two orders, and a stocked and an understocked product.
FixedSales ==
    << [Date |-> 1, Region |-> "East", Product_Name |-> "Widget", Category |-> "A",
        Sales_Amount |-> 100, Units_Sold |-> 2],
       [Date |-> 2, Region |-> "West", Product_Name |-> "Gadget", Category |-> "B",
        Sales_Amount |-> 50, Units_Sold |-> 1] >>

FixedInventory ==
    << [Stock_Level |-> 1, Reorder_Level |-> 1], [Stock_Level |-> 3, Reorder_Level |-> 3] >>

DemoInventories == { << >>, FixedInventory }

MinDate(tbl) == IF Len(tbl) = 0 THEN NoDate
                ELSE CHOOSE d \in ColValues(tbl, "Date") : \A e \in ColValues(tbl, "Date") : d <= e

MaxDateOf(tbl) == IF Len(tbl) = 0 THEN NoDate
                  ELSE CHOOSE d \in ColValues(tbl, "Date") : \A e \in ColValues(tbl, "Date") : d >= e

\* The property values the layout gives a freshly loaded page.
LayoutProps ==
    [start_date |-> MinDate(sales), end_date |-> MaxDateOf(sales),
     region |-> "all", category |-> "all", active_tab |-> "sales-tab",
     n_clicks |-> 0, n_intervals |-> 0]

PropValues ==
    [start_date : DateInputs, end_date : DateInputs, region : RegionInputs,
     category : CategoryInputs, active_tab : TabValues,
     n_clicks : 0..MaxClicks, n_intervals : 0..MaxTicks]

CurProps ==
    [start_date |-> start_date, end_date |-> end_date, region |-> region,
     category |-> category, active_tab |-> active_tab,
     n_clicks |-> n_clicks, n_intervals |-> n_intervals]

\* The tables are loaded, the random source is in a state the process start
\* can leave it in, the page shows its properties and nothing has been computed.
Started(S, I, P, R) ==
    /\ sales \in S
    /\ inventory \in I
    /\ sales0 = sales
    /\ inventory0 = inventory
    /\ rng \in R
    /\ \E p \in P :
          /\ start_date = p.start_date
          /\ end_date = p.end_date
          /\ region = p.region
          /\ category = p.category
          /\ active_tab = p.active_tab
          /\ n_clicks = p.n_clicks
          /\ n_intervals = p.n_intervals
    /\ kpi_cards = NoOutput
    /\ tab_content = NoOutput
    /\ inventory_section = NoOutput
    /\ requests = [t \in Threads |-> Idle]
    /\ fired = {}
    /\ ref = NoRef
    /\ kpiSinceRef = FALSE

(***************************************************************************)
(* The callback graph: each callback's Inputs (the decorators).             *)
(***************************************************************************)
Callbacks == {"update_kpi_cards", "update_tab_content", "update_inventory_section"}

KpiInputs == {"start_date", "end_date", "region", "category", "n_clicks", "n_intervals"}

TabInputs == {"active_tab", "start_date", "end_date", "region", "category"}

InventoryInputs == {"n_intervals", "n_clicks"}

InputsOf(cb) ==
    CASE cb = "update_kpi_cards" -> KpiInputs
      [] cb = "update_tab_content" -> TabInputs
      [] cb = "update_inventory_section" -> InventoryInputs

Triggered(prop) == { cb \in Callbacks : prop \in InputsOf(cb) }

(***************************************************************************)
(* One callback run, start to finish, on the state w it reads and writes    *)
(* (the random source, the inventory object, the three Outputs), with the   *)
(* property values p as its arguments.                                      *)
(***************************************************************************)
KpiArgsOf(p) ==
    [start_date |-> p.start_date, end_date |-> p.end_date,
     region |-> p.region, category |-> p.category]

TabArgsOf(p) ==
    [active_tab |-> p.active_tab, start_date |-> p.start_date, end_date |-> p.end_date,
     region |-> p.region, category |-> p.category]

update_kpi_cards(w, p) ==
    LET r == KpiCards(sales, KpiArgsOf(p), w.rng)
    IN  [w EXCEPT !.rng = r.rng, !.kpi_cards = r.out]

update_tab_content(w, p) ==
    [w EXCEPT !.tab_content = TabContent(sales, TabArgsOf(p))]

update_inventory_section(w, p) ==
    LET r == InventorySection(w.inventory, p.n_intervals, p.n_clicks, w.rng)
    IN  [w EXCEPT !.rng = r.rng, !.inventory = r.inventory, !.inventory_section = r.out]

Invoke(cb, w, p) ==
    CASE cb = "update_kpi_cards" -> update_kpi_cards(w, p)
      [] cb = "update_tab_content" -> update_tab_content(w, p)
      [] cb = "update_inventory_section" -> update_inventory_section(w, p)

RECURSIVE InvokeAll(_, _, _)
InvokeAll(order, w, p) ==
    IF Len(order) = 0 THEN w ELSE InvokeAll(Tail(order), Invoke(Head(order), w, p), p)

\* The orders in which the server may serve the callbacks of one event.
Orders(cbs) ==
    { o \in [1..Cardinality(cbs) -> cbs] : \A i, j \in 1..Cardinality(cbs) : i # j => o[i] # o[j] }

World ==
    [rng |-> rng, inventory |-> inventory, kpi_cards |-> kpi_cards,
     tab_content |-> tab_content, inventory_section |-> inventory_section]

\* The page's properties become p and the callbacks cbs run, each once.
Recompute(p, cbs) ==
    \E order \in Orders(cbs) :
        \E w \in {InvokeAll(order, World, p)} :
            /\ rng' = w.rng
            /\ inventory' = w.inventory
            /\ kpi_cards' = w.kpi_cards
            /\ tab_content' = w.tab_content
            /\ inventory_section' = w.inventory_section
            /\ start_date' = p.start_date
            /\ end_date' = p.end_date
            /\ region' = p.region
            /\ category' = p.category
            /\ active_tab' = p.active_tab
            /\ n_clicks' = p.n_clicks
            /\ n_intervals' = p.n_intervals
            /\ UNCHANGED <<sales, sales0, inventory0, requests>>

\* A property changes value: the callbacks that have it as an Input run.
Event(prop, value) ==
    /\ value # CurProps[prop]
    /\ Recompute([CurProps EXCEPT ![prop] = value], Triggered(prop))
    /\ fired' = Triggered(prop)

\* A page load: the layout's values, every callback once.
PageLoadEvent ==
    /\ Recompute(LayoutProps, Callbacks)
    /\ fired' = Callbacks

SetStartDateEvent == \E d \in DateInputs : Event("start_date", d)
SetEndDateEvent == \E d \in DateInputs : Event("end_date", d)
SetRegionEvent == \E v \in RegionInputs : Event("region", v)
SetCategoryEvent == \E v \in CategoryInputs : Event("category", v)
SelectTabEvent == \E v \in TabValues : Event("active_tab", v)
ClickRefreshEvent == n_clicks < MaxClicks /\ Event("n_clicks", n_clicks + 1)
TickEvent == n_intervals < MaxTicks /\ Event("n_intervals", n_intervals + 1)

(***************************************************************************)
(* Spec: one browser session from its page load on.                         *)
(***************************************************************************)
Init == Started({FixedSales}, DemoInventories, {LayoutProps}, RngStates)

PageLoad == fired = {} /\ PageLoadEvent /\ UNCHANGED observed
SetStartDate == fired # {} /\ SetStartDateEvent /\ UNCHANGED observed
SetEndDate == fired # {} /\ SetEndDateEvent /\ UNCHANGED observed
SetRegion == fired # {} /\ SetRegionEvent /\ UNCHANGED observed
SetCategory == fired # {} /\ SetCategoryEvent /\ UNCHANGED observed
SelectTab == fired # {} /\ SelectTabEvent /\ UNCHANGED observed
ClickRefresh == fired # {} /\ ClickRefreshEvent /\ UNCHANGED observed
Tick == fired # {} /\ TickEvent /\ UNCHANGED observed

Next ==
    \/ PageLoad
    \/ SetStartDate
    \/ SetEndDate
    \/ SetRegion
    \/ SetCategory
    \/ SelectTab
    \/ ClickRefresh
    \/ Tick

Spec == Init /\ [][Next]_vars

(***************************************************************************)
(* SpecFilter: the two sales callbacks on every sales table and every       *)
(* combination of filter values.                                            *)
(***************************************************************************)
FilterProps ==
    { p \in PropValues : p.n_clicks = 0 /\ p.n_intervals = 0 /\ p.active_tab = "sales-tab" }

\* The growth draws take the random source through all its states.
InitFilter == Started(SalesTables, {FixedInventory}, FilterProps, {RngSeed(0)})

KpiRecompute ==
    /\ Recompute(CurProps, {"update_kpi_cards"})
    /\ UNCHANGED <<fired, observed>>

TabRecompute ==
    /\ Recompute(CurProps, {"update_tab_content"})
    /\ UNCHANGED <<fired, observed>>

NextFilter == KpiRecompute \/ TabRecompute

SpecFilter == InitFilter /\ [][NextFilter]_vars

(***************************************************************************)
(* SpecInventory: the inventory callback on every inventory table and       *)
(* every tick state.                                                        *)
(***************************************************************************)
TickProps ==
    { [LayoutProps EXCEPT !.n_clicks = c, !.n_intervals = n] : c \in 0..MaxClicks, n \in 0..MaxTicks }

InitInventory == Started({FixedSales}, InventoryTables, TickProps, RngStates)

InventoryRecompute ==
    /\ Recompute(CurProps, {"update_inventory_section"})
    /\ UNCHANGED <<fired, observed>>

NextInventory == InventoryRecompute

SpecInventory == InitInventory /\ [][NextInventory]_vars

(***************************************************************************)
(* SpecSeed: a browser that also reloads the page (the counters start       *)
(* again at 0), with one earlier inventory outcome remembered for           *)
(* comparison with later ones.                                              *)
(***************************************************************************)
TickSum(a) == a.n_intervals + a.refresh_clicks

KpiSince == ref.set /\ (kpiSinceRef \/ "update_kpi_cards" \in fired')

Remember ==
    /\ "update_inventory_section" \in fired'
    /\ inventory_section'.status = "ok"
    /\ ref' = [set |-> TRUE, args |-> inventory_section'.args,
               dynamic_inventory |-> inventory_section'.dynamic_inventory]
    /\ kpiSinceRef' = FALSE

Keep == ref' = ref /\ kpiSinceRef' = KpiSince

Observe == Remember \/ Keep

InitSeed == Started({FixedSales}, DemoInventories, {LayoutProps}, RngStates)

ReloadObserved == PageLoadEvent /\ Observe
SetRegionObserved == fired # {} /\ SetRegionEvent /\ Observe
SelectTabObserved == fired # {} /\ SelectTabEvent /\ Observe
ClickRefreshObserved == fired # {} /\ ClickRefreshEvent /\ Observe
TickObserved == fired # {} /\ TickEvent /\ Observe

NextSeed ==
    \/ ReloadObserved
    \/ SetRegionObserved
    \/ SelectTabObserved
    \/ ClickRefreshObserved
    \/ TickObserved

SpecSeed == InitSeed /\ [][NextSeed]_vars

(***************************************************************************)
(* SpecConc: the threaded development server (app.run, line 477) serving    *)
(* requests of several sessions at once, a thread switch possible between   *)
(* any two statements that touch the random source.                         *)
(***************************************************************************)
InventoryArgs == [n_intervals : 0..MaxTicks, refresh_clicks : 0..MaxClicks]

SetReq(t, r) ==
    /\ requests' = [requests EXCEPT ![t] = r]
    /\ UNCHANGED <<tables, props, outputs, fired, observed>>

AcceptKpi(t) ==
    /\ requests[t].pc = "idle"
    /\ SetReq(t, [pc |-> "line_187", callback |-> "update_kpi_cards",
                  args |-> KpiArgsOf(CurProps)])
    /\ UNCHANGED rng

AcceptInventory(t) ==
    /\ requests[t].pc = "idle"
    /\ \E a \in InventoryArgs :
          SetReq(t, [pc |-> "line_370", callback |-> "update_inventory_section", args |-> a])
    /\ UNCHANGED rng

\* Lines 187-204: the filter and the totals, on locals only.
KpiLocalStep(t) ==
    /\ requests[t].pc = "line_187"
    /\ SetReq(t, [requests[t] EXCEPT !.pc = "line_207"])
    /\ UNCHANGED rng

\* Line 207 and the return.
KpiGrowthStep(t) ==
    /\ requests[t].pc = "line_207"
    /\ LET r == KpiCards(sales, requests[t].args, rng)
       IN  /\ SetReq(t, [pc |-> "done", callback |-> requests[t].callback,
                         args |-> requests[t].args, out |-> r.out])
           /\ rng' = r.rng

\* Line 370.
InvCopyStep(t) ==
    /\ requests[t].pc = "line_370"
    /\ SetReq(t, [pc |-> "line_373", callback |-> requests[t].callback,
                  args |-> requests[t].args, dynamic_inventory |-> inventory])
    /\ UNCHANGED rng

\* Line 373.
InvSeedStep(t) ==
    /\ requests[t].pc = "line_373"
    /\ rng' = InventorySeed(requests[t].args.n_intervals, requests[t].args.refresh_clicks)
    /\ SetReq(t, [requests[t] EXCEPT !.pc = "line_374"])

\* Line 374.
InvDrawStep(t) ==
    /\ requests[t].pc = "line_374"
    /\ LET draw == RandInt(-2, 3, Len(requests[t].dynamic_inventory), rng)
       IN  /\ rng' = draw.rng
           /\ SetReq(t, [requests[t] EXCEPT
                           !.pc = "line_375",
                           !.dynamic_inventory = AddToStock(@, draw.vals)])

\* Lines 375-378 and the return.
InvFinishStep(t) ==
    /\ requests[t].pc = "line_375"
    /\ SetReq(t, [pc |-> "done", callback |-> requests[t].callback,
                  args |-> requests[t].args,
                  out |-> InventoryOut(requests[t].args, requests[t].dynamic_inventory)])
    /\ UNCHANGED rng

Respond(t) ==
    /\ requests[t].pc = "done"
    /\ SetReq(t, Idle)
    /\ UNCHANGED rng

InitConc == Started({FixedSales}, {FixedInventory}, {LayoutProps}, RngStates)

NextConc ==
    \E t \in Threads :
        \/ AcceptKpi(t)
        \/ AcceptInventory(t)
        \/ KpiLocalStep(t)
        \/ KpiGrowthStep(t)
        \/ InvCopyStep(t)
        \/ InvSeedStep(t)
        \/ InvDrawStep(t)
        \/ InvFinishStep(t)
        \/ Respond(t)

SpecConc == InitConc /\ [][NextConc]_vars

(***************************************************************************)
(* Properties.                                                              *)
(***************************************************************************)
SalesOutputs == {kpi_cards, tab_content}

Ran(o) == o.status # "none"

RowsOf(tbl) == { tbl[i] : i \in 1..Len(tbl) }

InRange(r, a) == a.start_date <= r.Date /\ r.Date <= a.end_date

\* The region and category conditions of a FilterSpec, on one row.
OtherFilters(r, a) ==
    /\ (a.region # "all" => r.Region = a.region)
    /\ (a.category # "all" => r.Category = a.category)

\* C1 (SpecFilter): the date bounds of the sales filter act independently.
\* With only start_date present every kept row has Date >= start_date, with
\* only end_date present every kept row has Date <= end_date, and with both
\* present exactly the rows with start_date <= Date <= end_date are kept.
C1_DateBoundsIndependent ==
    \A o \in SalesOutputs :
        o.status = "ok" =>
            /\ (Truthy(o.args.start_date) =>
                    \A r \in RowsOf(o.filtered_sales) : r.Date >= o.args.start_date)
            /\ (Truthy(o.args.end_date) =>
                    \A r \in RowsOf(o.filtered_sales) : r.Date <= o.args.end_date)
            /\ (Truthy(o.args.start_date) /\ Truthy(o.args.end_date) =>
                    o.filtered_sales =
                        SelectSeq(sales, LAMBDA r : InRange(r, o.args) /\ OtherFilters(r, o.args)))

\* C3 (SpecFilter): a filter evaluation whose start_date and end_date are both
\* present with end_date before start_date ends in InvalidFilterError, never
\* in an (empty) filtered table.
C3_InvalidRangeFails ==
    \A o \in SalesOutputs :
        (Ran(o) /\ Truthy(o.args.start_date) /\ Truthy(o.args.end_date)
                /\ o.args.end_date < o.args.start_date)
            => o.status = "InvalidFilterError"

\* What the code keeps of the sales table for a FilterSpec: the date range
\* counts only when both bounds are present.
Matches(r, a) ==
    /\ (Truthy(a.start_date) /\ Truthy(a.end_date) => InRange(r, a))
    /\ OtherFilters(r, a)

\* C9 (SpecFilter): whenever no sales row passes the filter, update_kpi_cards
\* completes without a fault and yields totalSales = 0, totalUnits = 0,
\* avgOrderValue = 0 and "No data" for the average units per order, no
\* division by the row count having been evaluated.
C9_EmptyFilterZeroKpis ==
    (Ran(kpi_cards) /\ \A r \in RowsOf(sales) : ~Matches(r, kpi_cards.args))
        => /\ kpi_cards.status = "ok"
           /\ kpi_cards.total_sales = 0
           /\ kpi_cards.total_units = 0
           /\ kpi_cards.avg_order_value = Rat(0)
           /\ kpi_cards.avg_units.text = "No data"
           /\ ~kpi_cards.avg_units.value.err
           /\ kpi_cards.orders = 0

\* C9's case: a region no row has, on a table that has rows.
C9_Witness ==
    /\ kpi_cards.status = "ok"
    /\ kpi_cards.args.region = "North"
    /\ Len(sales) = MaxRows
    /\ kpi_cards.orders = 0

FilterSteps == {"date", "region", "category"}

ApplyStep(step, fs, a) ==
    CASE step = "date" -> DateStep(fs, a.start_date, a.end_date)
      [] step = "region" -> RegionStep(fs, a.region)
      [] step = "category" -> CategoryStep(fs, a.category)

RECURSIVE ApplySteps(_, _, _)
ApplySteps(order, fs, a) ==
    IF Len(order) = 0 THEN fs ELSE ApplySteps(Tail(order), ApplyStep(Head(order), fs, a), a)

\* C10 (SpecFilter): the three filter steps compose as a logical AND whose
\* result does not depend on the order of application: each of the six orders
\* yields the rows the callback kept, which are the rows that satisfy all
\* three conditions at once.
C10_FilterOrderIrrelevant ==
    \A o \in SalesOutputs :
        o.status = "ok" =>
            /\ \A order \in Orders(FilterSteps) :
                   ApplySteps(order, sales, o.args) = o.filtered_sales
            /\ o.filtered_sales = SelectSeq(sales, LAMBDA r : Matches(r, o.args))

\* C10's case: all three conditions active, some rows kept and some dropped,
\* in both callbacks.
C10_Witness ==
    \A o \in SalesOutputs :
        /\ o.status = "ok"
        /\ Truthy(o.args.start_date) /\ Truthy(o.args.end_date)
        /\ o.args.region # "all" /\ o.args.category # "all"
        /\ Len(o.filtered_sales) > 0
        /\ Len(o.filtered_sales) < Len(sales)

Max(x, y) == IF x >= y THEN x ELSE y

\* C2 (SpecInventory): for every inventory table, the empty one included, and
\* every tick state, update_inventory_section yields the stock health
\* 100 * (totalRows - lowStockRows) / totalRows, or 100 when totalRows = 0,
\* without a division fault; the value lies in [0, 100].
C2_StockHealthDefined ==
    Ran(inventory_section) =>
        /\ inventory_section.status = "ok"
        /\ LET total == Len(inventory)
               low == Len(inventory_section.low_stock)
               pct == inventory_section.stock_percentage
           IN  /\ pct = IF total > 0 THEN TrueDiv(100 * (total - low), total) ELSE Rat(100)
               /\ 0 <= pct.num /\ pct.num <= 100 * pct.den

\* C8 (SpecInventory): every perturbed Stock_Level equals max(0, b + d) for
\* the row's base level b and some integer d in [-2, 2]; it is never negative
\* and lies in [max(0, b - 2), b + 2].
C8_PerturbationClipped ==
    inventory_section.status = "ok" =>
        /\ Len(inventory_section.dynamic_inventory) = Len(inventory)
        /\ \A i \in 1..Len(inventory) :
              LET b == inventory[i].Stock_Level
                  v == inventory_section.dynamic_inventory[i].Stock_Level
              IN  /\ \E d \in -2..2 : v = Max(0, b + d)
                  /\ v >= 0
                  /\ Max(0, b - 2) <= v /\ v <= b + 2

\* C8's case: a row whose perturbed level was clipped at 0.
C8_Witness ==
    /\ inventory_section.status = "ok"
    /\ \E i \in 1..Len(inventory) :
          /\ inventory[i].Stock_Level = 1
          /\ inventory_section.dynamic_inventory[i].Stock_Level = 0

\* C7 (Spec): the base tables are never mutated: after any sequence of
\* callback runs the global sales and inventory tables hold exactly the rows
\* they held after load, so no perturbation carries over to the next tick.
C7_BaseTablesUnchanged == sales = sales0 /\ inventory = inventory0

\* C7's case: after a tick, all three callbacks have run and the inventory
\* callback has perturbed its frame.
C7_Witness ==
    /\ n_intervals > 0
    /\ kpi_cards.status = "ok"
    /\ tab_content.status = "ok"
    /\ inventory_section.status = "ok"
    /\ inventory_section.dynamic_inventory # inventory

OutputsCurrent ==
    /\ kpi_cards.status = "ok"
    /\ kpi_cards.args = KpiArgsOf(CurProps)
    /\ tab_content.status = "ok"
    /\ tab_content.args = TabArgsOf(CurProps)
    /\ inventory_section.status = "ok"
    /\ inventory_section.args = [n_intervals |-> n_intervals, refresh_clicks |-> n_clicks]

FilterChanged ==
    <<start_date, end_date, region, category>>' # <<start_date, end_date, region, category>>

TriggersAsDeclared ==
    /\ FilterChanged =>
          /\ fired' = {"update_kpi_cards", "update_tab_content"}
          /\ inventory_section' = inventory_section
    /\ active_tab' # active_tab =>
          /\ fired' = {"update_tab_content"}
          /\ kpi_cards' = kpi_cards
          /\ inventory_section' = inventory_section
    /\ (n_clicks' # n_clicks \/ n_intervals' # n_intervals) =>
          /\ fired' = {"update_kpi_cards", "update_inventory_section"}
          /\ tab_content' = tab_content

\* C6 (Spec): after every event each output reflects the current inputs it
\* depends on: KPIs are recomputed on every filter change, refresh click and
\* tick, the tab content on every filter change and tab selection, the
\* inventory section on every tick and refresh click, and an event leaves
\* unchanged every output that does not depend on the changed input.
C6_OutputsFollowInputs == [][TriggersAsDeclared /\ OutputsCurrent']_vars

\* C4 (SpecSeed): any two runs of update_inventory_section whose
\* n_intervals + refresh_clicks sums are equal produce identical perturbed
\* Stock_Level values, whatever the two pairs and whatever was drawn from the
\* random source before or between them.
C4_SameSumSameStock ==
    (ref.set /\ inventory_section.status = "ok"
             /\ TickSum(ref.args) = TickSum(inventory_section.args))
        => inventory_section.dynamic_inventory = ref.dynamic_inventory

\* C4's case: two runs with different pairs of equal sum, a KPI draw between.
C4_Witness ==
    /\ ref.set
    /\ inventory_section.status = "ok"
    /\ TickSum(ref.args) = TickSum(inventory_section.args)
    /\ ref.args # inventory_section.args
    /\ kpiSinceRef
    /\ inventory_section.dynamic_inventory # inventory

\* C5 (SpecConc): with the statements of simultaneous requests interleaved,
\* each result depends only on the request's own arguments and the base
\* tables: the inventory result equals the one the same request yields when
\* served alone, and so do the KPIs apart from the growth figure.
C5_ResultsAsIfAlone ==
    \A t \in Threads :
        requests[t].pc = "done" =>
            IF requests[t].callback = "update_inventory_section"
            THEN requests[t].out =
                     InventorySection(inventory, requests[t].args.n_intervals,
                                      requests[t].args.refresh_clicks, rng).out
            ELSE [requests[t].out EXCEPT !.growth_rate = 0] =
                     [KpiCards(sales, requests[t].args, rng).out EXCEPT !.growth_rate = 0]

====
